---- MODULE Spec2Model ----
(***************************************************************************)
(* Model of src/providers.rs of urlshortener-rs: the provider catalog, the  *)
(* per-provider response parsers and request builders, and the dispatcher   *)
(* (single-provider shortening and ranked fallback) that drives them.       *)
(*                                                                          *)
(* Text is a sequence of one-character strings, so that splitting,          *)
(* searching and concatenation are computed character by character.         *)
(***************************************************************************)
EXTENDS Integers, Sequences, FiniteSets, TLC

\* Largest number of pieces the transport stub assembles a response body from.
MaxPieces == 4

VARIABLES pc, mode, longUrl, provider, ranking, rank, req, response,
          shortened, invoked, outcomes, ret

vars == <<pc, mode, longUrl, provider, ranking, rank, req, response,
          shortened, invoked, outcomes, ret>>

(***************************************************************************)
(* Option<T>                                                                *)
(***************************************************************************)
None == [tag |-> "None"]

Some(v) == [tag |-> "Some", val |-> v]

unwrap_or(opt, default) == IF opt = None THEN default ELSE opt.val

(***************************************************************************)
(* str: pattern search, split, replace                                      *)
(***************************************************************************)
\* TRUE iff pat occurs in s starting at index i.
MatchAt(s, pat, i) ==
    /\ i >= 1
    /\ i + Len(pat) - 1 <= Len(s)
    /\ \A k \in 1..Len(pat) : s[i + k - 1] = pat[k]

\* Index of the leftmost occurrence of pat in s, 0 when there is none.
Find(s, pat) ==
    LET I == {i \in 1..Len(s) : MatchAt(s, pat, i)}
    IN  IF I = {} THEN 0 ELSE CHOOSE i \in I : \A j \in I : i <= j

Contains(s, pat) == Find(s, pat) # 0

\* The text of s after its first n characters.
Drop(s, n) == SubSeq(s, n + 1, Len(s))

\* str::split(pat) for a non-empty pattern: the pieces between the
\* non-overlapping occurrences of pat, found left to right.
RECURSIVE split(_, _)
split(s, pat) ==
    LET i == Find(s, pat)
    IN  IF i = 0 THEN <<s>>
        ELSE <<SubSeq(s, 1, i - 1)>> \o split(Drop(s, i + Len(pat) - 1), pat)

\* Iterator::nth(n), counting from 0.
nth(it, n) == IF Len(it) > n THEN Some(it[n + 1]) ELSE None

\* Iterator::next() on a fresh iterator.
next(it) == nth(it, 0)

RECURSIVE Join(_, _)
Join(pieces, sep) ==
    IF Len(pieces) = 0 THEN <<>>
    ELSE IF Len(pieces) = 1 THEN pieces[1]
    ELSE pieces[1] \o sep \o Join(Tail(pieces), sep)

\* str::replace(from, to): every non-overlapping occurrence, left to right.
replace(s, from, to) == Join(split(s, from), to)

(***************************************************************************)
(* Extraction macros                                                        *)
(***************************************************************************)
\* parse_xml_tag! with .nth(0) in place of .nth(1).
parse_xml_tag_nth0(tag, res) ==
    IF res = <<>> THEN None
    ELSE LET value == next(split(unwrap_or(nth(split(res, <<"<">> \o tag \o <<">">>), 0), <<>>),
                                 <<"<", "/">> \o tag \o <<">">>))
         IN  IF value # None THEN Some(value.val) ELSE None

parse_xml_tag(tag, res) ==
    IF res = <<>> THEN None
    ELSE LET value == next(split(unwrap_or(nth(split(res, <<"<">> \o tag \o <<">">>), 1), <<>>),
                                 <<"<", "/">> \o tag \o <<">">>))
         IN  IF value # None THEN Some(value.val) ELSE None

\* The chain of splits of parse_json_tag!, up to the final .nth(k).
json_value(tag, res, k) ==
    nth(split(unwrap_or(next(split(unwrap_or(nth(split(res, <<"\"">> \o tag \o <<"\"">>), 1), <<>>),
                                    <<",">>)), <<>>),
              <<"\"">>), k)

\* parse_json_tag! that forgets the literal prefix.
parse_json_tag_noprefix(tag, prefix, res) ==
    IF res = <<>> THEN None
    ELSE LET value == json_value(tag, res, 1)
         IN  IF value # None THEN Some(replace(value.val, <<"\\">>, <<>>)) ELSE None

\* parse_json_tag! whose last split takes .nth(0) in place of .nth(1).
parse_json_tag_nth0(tag, prefix, res) ==
    IF res = <<>> THEN None
    ELSE LET value == json_value(tag, res, 0)
         IN  IF value # None THEN Some(prefix \o replace(value.val, <<"\\">>, <<>>)) ELSE None

\* parse_json_tag! without the .replace("\\", "").
parse_json_tag_noreplace(tag, prefix, res) ==
    IF res = <<>> THEN None
    ELSE LET value == json_value(tag, res, 1)
         IN  IF value # None THEN Some(prefix \o value.val) ELSE None

parse_json_tag(tag, prefix, res) ==
    IF res = <<>> THEN None
    ELSE LET value == json_value(tag, res, 1)
         IN  IF value # None THEN Some(prefix \o replace(value.val, <<"\\">>, <<>>)) ELSE None

(***************************************************************************)
(* Provider catalog                                                         *)
(***************************************************************************)
Provider ==
    {"Abv8", "BamBz", "Bmeo", "BnGy", "FifoCc", "HecSu", "IsGd", "NowLinks",
     "PhxCoIn", "PsbeCo", "SCoop", "Rdd", "Rlu", "SirBz", "TinyUrl", "TinyPh",
     "TnyIm", "VGd"}

\* providers() with the third and fourth entries exchanged.
providers_swapped ==
    <<"IsGd", "BnGy", "Rdd", "VGd", "BamBz", "TinyPh", "FifoCc", "SCoop", "Bmeo",
      "TnyIm",
      "SirBz", "Rlu", "HecSu", "Abv8", "TinyUrl", "PsbeCo",
      "NowLinks">>

providers ==
    <<"IsGd", "BnGy", "VGd", "Rdd", "BamBz", "TinyPh", "FifoCc", "SCoop", "Bmeo",
      "TnyIm",
      "SirBz", "Rlu", "HecSu", "Abv8", "TinyUrl", "PsbeCo",
      "NowLinks">>

(***************************************************************************)
(* hyper request builder: the parts of a request the code sets             *)
(***************************************************************************)
ContentType_form_url_encoded ==
    [name |-> "Content-Type", value |-> "application/x-www-form-urlencoded"]

get(target) == [method |-> "Get", target |-> target, body |-> None, headers |-> {}]

post(target) == [method |-> "Post", target |-> target, body |-> None, headers |-> {}]

body(rb, b) == [rb EXCEPT !.body = Some(b)]

header(rb, h) == [rb EXCEPT !.headers = @ \cup {h}]

(***************************************************************************)
(* Per-provider parsers and request builders                                *)
(***************************************************************************)
abv8_parse(res) == Some(res)

abv8_request(url) ==
    get(<<"h","t","t","p",":","/","/","a","b","v","8",".","m","e","/","?","u","r","l","=">> \o url)

bambz_parse(res) ==
    parse_json_tag(<<"u","r","l">>, <<>>, res)

bambz_request(url) ==
    header(body(post(<<"h","t","t","p","s",":","/","/","b","a","m",".","b","z","/","a","p","i","/","s","h","o","r","t">>),
         <<"t","a","r","g","e","t","=">> \o url),
           ContentType_form_url_encoded)

bmeo_parse(res) ==
    parse_json_tag(<<"s","h","o","r","t">>, <<>>, res)

bmeo_request(url) ==
    get(<<"h","t","t","p",":","/","/","b","m","e","o",".","o","r","g","/","a","p","i",".","p","h","p","?","u","r","l","=">> \o url)

bngy_parse(res) == parse_xml_tag(<<"S","h","o","r","t","e","n","e","d","U","r","l">>, res)

bngy_request(url) ==
    get(<<"h","t","t","p","s",":","/","/","b","n",".","g","y","/","A","P","I",".","a","s","m","x","/","C","r","e","a","t","e","U","r","l","?","r","e","a","l","_","u","r","l","=">> \o url)

fifocc_parse(res) ==
    parse_json_tag(<<"s","h","o","r","t","n","e","r">>, <<"h","t","t","p",":","/","/","f","i","f","o",".","c","c","/">>, res)

fifocc_request(url) ==
    get(<<"h","t","t","p","s",":","/","/","f","i","f","o",".","c","c","/","a","p","i","/","v","2","?","u","r","l","=">> \o url)

hecsu_parse(res) == parse_xml_tag(<<"s","h","o","r","t">>, res)

hecsu_request(url) ==
    get(<<"h","t","t","p","s",":","/","/","h","e","c",".","s","u","/","a","p","i","?","u","r","l","=">> \o url \o <<"&","m","e","t","h","o","d","=","x","m","l">>)

isgd_parse(res) == Some(res)

isgd_request(url) ==
    get(<<"h","t","t","p","s",":","/","/","i","s",".","g","d","/","c","r","e","a","t","e",".","p","h","p","?","f","o","r","m","a","t","=","s","i","m","p","l","e","&","u","r","l","=">> \o url)

nowlinks_parse(res) == Some(res)

nowlinks_request(url) ==
    get(<<"h","t","t","p",":","/","/","n","o","w","l","i","n","k","s",".","n","e","t","/","a","p","i","?","u","r","l","=">> \o url)

phxcoin_parse(res) == Some(res)

phxcoin_request(url) ==
    get(<<"h","t","t","p",":","/","/","p","h","x",".","c","o",".","i","n","/","s","h","r","i","n","k",".","a","s","p","?","u","r","l","=">> \o url)

psbeco_parse(res) == parse_xml_tag(<<"S","h","o","r","t","U","r","l">>, res)

psbeco_request(url) ==
    get(<<"h","t","t","p",":","/","/","p","s","b","e",".","c","o","/","A","P","I",".","a","s","m","x","/","C","r","e","a","t","e","U","r","l","?","r","e","a","l","_","u","r","l","=">> \o url)

scoop_parse(res) == Some(res)

scoop_request(url) ==
    get(<<"h","t","t","p",":","/","/","s",".","c","o","o","p","/","d","e","v","a","p","i",".","p","h","p","?","a","c","t","i","o","n","=","s","h","o","r","t","u","r","l","&","u","r","l","=">> \o url \o <<"&","f","o","r","m","a","t","=","R","E","T","U","R","N">>)

rdd_parse(res) ==
    parse_json_tag(<<"r","d","d","_","u","r","l">>, <<>>, res)

rdd_request(url) ==
    body(post(<<"h","t","t","p","s",":","/","/","r","e","a","d","a","b","i","l","i","t","y",".","c","o","m","/","a","p","i","/","s","h","o","r","t","e","n","e","r","/","v","1","/","u","r","l","s">>),
         <<"u","r","l","=">> \o url)

rlu_parse(res) == Some(res)

rlu_request(url) ==
    get(<<"h","t","t","p",":","/","/","r","l","u",".","r","u","/","i","n","d","e","x",".","s","e","m","a","?","a","=","a","p","i","&","l","i","n","k","=">> \o url)

sirbz_parse(res) ==
    parse_json_tag(<<"s","h","o","r","t","_","l","i","n","k">>, <<>>, res)

sirbz_request(url) ==
    header(body(post(<<"h","t","t","p",":","/","/","s","i","r","b","z",".","c","o","m","/","a","p","i","/","s","h","o","r","t","e","n","_","u","r","l">>),
         <<"u","r","l","=">> \o url),
           ContentType_form_url_encoded)

tinyurl_parse(res) ==
    IF res = <<>> THEN None
    ELSE LET value == next(split(unwrap_or(nth(split(res, <<"d","a","t","a","-","c","l","i","p","b","o","a","r","d","-","t","e","x","t","=","\"">>), 1), <<>>),
                                 <<"\"",">">>))
         IN  IF value # None THEN Some(value.val) ELSE None

tinyurl_request(url) ==
    get(<<"h","t","t","p",":","/","/","t","i","n","y","u","r","l",".","c","o","m","/","c","r","e","a","t","e",".","p","h","p","?","u","r","l","=">> \o url)

tinyph_parse(res) ==
    parse_json_tag(<<"h","a","s","h">>, <<"h","t","t","p",":","/","/","t","i","n","y",".","p","h","/">>, res)

tinyph_request(url) ==
    header(body(post(<<"h","t","t","p",":","/","/","t","i","n","y",".","p","h","/","a","p","i","/","u","r","l","/","c","r","e","a","t","e">>),
         <<"u","r","l","=">> \o url),
           ContentType_form_url_encoded)

tnyim_parse(res) == parse_xml_tag(<<"s","h","o","r","t","u","r","l">>, res)

tnyim_request(url) ==
    get(<<"h","t","t","p",":","/","/","t","n","y",".","i","m","/","y","o","u","r","l","s","-","a","p","i",".","p","h","p","?","a","c","t","i","o","n","=","s","h","o","r","t","u","r","l","&","u","r","l","=">> \o url)

vgd_parse(res) == Some(res)

vgd_request(url) ==
    get(<<"h","t","t","p",":","/","/","v",".","g","d","/","c","r","e","a","t","e",".","p","h","p","?","f","o","r","m","a","t","=","s","i","m","p","l","e","&","u","r","l","=">> \o url)

parse(res, p) ==
    CASE p = "Abv8" -> abv8_parse(res)
      [] p = "BamBz" -> bambz_parse(res)
      [] p = "Bmeo" -> bmeo_parse(res)
      [] p = "BnGy" -> bngy_parse(res)
      [] p = "FifoCc" -> fifocc_parse(res)
      [] p = "HecSu" -> hecsu_parse(res)
      [] p = "IsGd" -> isgd_parse(res)
      [] p = "NowLinks" -> nowlinks_parse(res)
      [] p = "PhxCoIn" -> phxcoin_parse(res)
      [] p = "PsbeCo" -> psbeco_parse(res)
      [] p = "SCoop" -> scoop_parse(res)
      [] p = "SirBz" -> sirbz_parse(res)
      [] p = "Rdd" -> rdd_parse(res)
      [] p = "Rlu" -> rlu_parse(res)
      [] p = "TinyUrl" -> tinyurl_parse(res)
      [] p = "TinyPh" -> tinyph_parse(res)
      [] p = "TnyIm" -> tnyim_parse(res)
      [] p = "VGd" -> vgd_parse(res)

request(url, p) ==
    CASE p = "Abv8" -> abv8_request(url)
      [] p = "BamBz" -> bambz_request(url)
      [] p = "Bmeo" -> bmeo_request(url)
      [] p = "BnGy" -> bngy_request(url)
      [] p = "FifoCc" -> fifocc_request(url)
      [] p = "HecSu" -> hecsu_request(url)
      [] p = "IsGd" -> isgd_request(url)
      [] p = "NowLinks" -> nowlinks_request(url)
      [] p = "PhxCoIn" -> phxcoin_request(url)
      [] p = "PsbeCo" -> psbeco_request(url)
      [] p = "SCoop" -> scoop_request(url)
      [] p = "SirBz" -> sirbz_request(url)
      [] p = "Rdd" -> rdd_request(url)
      [] p = "Rlu" -> rlu_request(url)
      [] p = "TinyUrl" -> tinyurl_request(url)
      [] p = "TinyPh" -> tinyph_request(url)
      [] p = "TnyIm" -> tnyim_request(url)
      [] p = "VGd" -> vgd_request(url)

(***************************************************************************)
(* The extraction rule bound to each provider by parse(): its strategy and *)
(* the strings the strategy is instantiated with.                           *)
(***************************************************************************)
PassthroughProviders == {"Abv8", "IsGd", "NowLinks", "PhxCoIn", "SCoop", "Rlu", "VGd"}

DelimiterProviders == {"BnGy", "HecSu", "PsbeCo", "TnyIm", "TinyUrl"}

KeyedProviders == {"BamBz", "Bmeo", "FifoCc", "Rdd", "SirBz", "TinyPh"}

TagName(p) ==
    CASE p = "BnGy" -> <<"S","h","o","r","t","e","n","e","d","U","r","l">>
      [] p = "HecSu" -> <<"s","h","o","r","t">>
      [] p = "PsbeCo" -> <<"S","h","o","r","t","U","r","l">>
      [] p = "TnyIm" -> <<"s","h","o","r","t","u","r","l">>

OpenDelim(p) ==
    IF p = "TinyUrl"
    THEN <<"d","a","t","a","-","c","l","i","p","b","o","a","r","d","-","t","e","x","t","=","\"">>
    ELSE <<"<">> \o TagName(p) \o <<">">>

CloseDelim(p) ==
    IF p = "TinyUrl" THEN <<"\"", ">">> ELSE <<"<", "/">> \o TagName(p) \o <<">">>

FieldName(p) ==
    CASE p = "BamBz" -> <<"u","r","l">>
      [] p = "Bmeo" -> <<"s","h","o","r","t">>
      [] p = "FifoCc" -> <<"s","h","o","r","t","n","e","r">>
      [] p = "Rdd" -> <<"r","d","d","_","u","r","l">>
      [] p = "SirBz" -> <<"s","h","o","r","t","_","l","i","n","k">>
      [] p = "TinyPh" -> <<"h","a","s","h">>

QuotedField(p) == <<"\"">> \o FieldName(p) \o <<"\"">>

Prefix(p) ==
    CASE p = "FifoCc" -> <<"h","t","t","p",":","/","/","f","i","f","o",".","c","c","/">>
      [] p = "TinyPh" -> <<"h","t","t","p",":","/","/","t","i","n","y",".","p","h","/">>
      [] OTHER -> <<>>

(***************************************************************************)
(* Inputs: the long URLs a caller passes and the response bodies a          *)
(* transport can hand back.  A body is a concatenation of at most MaxPieces *)
(* pieces, the pieces being the strings the provider's parser looks for     *)
(* and the characters it treats specially.                                  *)
(***************************************************************************)
LongUrls == {<<"x">>, <<"y", "z">>}

Pieces(p) ==
    IF p \in DelimiterProviders
    THEN {OpenDelim(p), CloseDelim(p), <<"a">>, <<Head(CloseDelim(p))>>}
    ELSE IF p \in KeyedProviders
    THEN {QuotedField(p), <<"\"">>, <<",">>, <<"\\">>, <<"a">>}
    ELSE {<<"a">>, <<"/">>}

RECURSIVE Flatten(_)
Flatten(ps) == IF Len(ps) = 0 THEN <<>> ELSE Head(ps) \o Flatten(Tail(ps))

Bodies(p) ==
    {Flatten(f) : f \in UNION {[1..n -> Pieces(p)] : n \in 0..MaxPieces}}

(***************************************************************************)
(* State machine                                                            *)
(***************************************************************************)
Init ==
    /\ pc = "idle"
    /\ mode = "none"
    /\ longUrl = <<>>
    /\ provider = "none"
    /\ ranking = <<>>
    /\ rank = 0
    /\ req = None
    /\ response = None
    /\ shortened = None
    /\ invoked = <<>>
    /\ outcomes = <<>>
    /\ ret = None

\* shortenVia(longUrl, provider) is called.
StartVia ==
    /\ pc = "idle"
    /\ \E u \in LongUrls, p \in Provider :
          /\ longUrl' = u
          /\ provider' = p
    /\ mode' = "via"
    /\ pc' = "request"
    /\ UNCHANGED <<ranking, rank, req, response, shortened, invoked, outcomes, ret>>

\* shortenWithFallback(longUrl) is called: it takes the ranked list and
\* starts with its first entry.
StartFallback ==
    /\ pc = "idle"
    /\ \E u \in LongUrls : longUrl' = u
    /\ mode' = "fallback"
    /\ ranking' = providers
    /\ rank' = 1
    /\ provider' = providers[1]
    /\ pc' = "request"
    /\ UNCHANGED <<req, response, shortened, invoked, outcomes, ret>>

\* request(url, client, provider): the request is built and sent; the
\* transport fails (None) or answers with a body.
Request ==
    /\ pc = "request"
    /\ req' = Some(request(longUrl, provider))
    /\ invoked' = Append(invoked, provider)
    /\ \/ response' = None
       \/ \E b \in Bodies(provider) : response' = Some(b)
    /\ shortened' = None
    /\ pc' = "response"
    /\ UNCHANGED <<mode, longUrl, provider, ranking, rank, outcomes, ret>>

\* The attempt's result: parse() runs on the body only when the transport
\* succeeded.
Extract ==
    /\ pc = "response"
    /\ shortened' = IF response = None THEN None ELSE parse(response.val, provider)
    /\ outcomes' = Append(outcomes, shortened')
    /\ pc' = "attempted"
    /\ UNCHANGED <<mode, longUrl, provider, ranking, rank, req, response, invoked, ret>>

\* shortenVia returns the attempt's result.
ReturnVia ==
    /\ pc = "attempted"
    /\ mode = "via"
    /\ ret' = shortened
    /\ pc' = "done"
    /\ UNCHANGED <<mode, longUrl, provider, ranking, rank, req, response,
                   shortened, invoked, outcomes>>

\* shortenWithFallback: the attempt produced a result, which is returned
\* with its provider.
FallbackSuccess ==
    /\ pc = "attempted"
    /\ mode = "fallback"
    /\ shortened # None
    /\ ret' = Some(<<provider, shortened.val>>)
    /\ pc' = "done"
    /\ UNCHANGED <<mode, longUrl, provider, ranking, rank, req, response,
                   shortened, invoked, outcomes>>

\* shortenWithFallback: the attempt produced nothing; its request and
\* response are dropped and the next ranked provider is tried.
FallbackNext ==
    /\ pc = "attempted"
    /\ mode = "fallback"
    /\ shortened = None
    /\ rank < Len(ranking)
    /\ rank' = rank + 1
    /\ provider' = ranking[rank + 1]
    /\ req' = None
    /\ response' = None
    /\ shortened' = None
    /\ pc' = "request"
    /\ UNCHANGED <<mode, longUrl, ranking, invoked, outcomes, ret>>

\* shortenWithFallback: the last ranked provider produced nothing.
FallbackExhausted ==
    /\ pc = "attempted"
    /\ mode = "fallback"
    /\ shortened = None
    /\ rank = Len(ranking)
    /\ ret' = None
    /\ pc' = "done"
    /\ UNCHANGED <<mode, longUrl, provider, ranking, rank, req, response,
                   shortened, invoked, outcomes>>

Next ==
    \/ StartVia
    \/ StartFallback
    \/ Request
    \/ Extract
    \/ ReturnVia
    \/ FallbackSuccess
    \/ FallbackNext
    \/ FallbackExhausted

Spec == Init /\ [][Next]_vars

(***************************************************************************)
(* Vocabulary of the properties                                             *)
(***************************************************************************)
Attempted == pc = "attempted" /\ response # None

\* The text that follows the first occurrence of pat in b.
After(b, pat) == Drop(b, Find(b, pat) + Len(pat) - 1)

\* The text of b before the first occurrence of pat, all of b without one.
Before(b, pat) == IF Contains(b, pat) THEN SubSeq(b, 1, Find(b, pat) - 1) ELSE b

\* Delimiter-bounded case: the opening delimiter occurs and the closing
\* delimiter occurs after its first occurrence.
Delimited(p, b) ==
    /\ Contains(b, OpenDelim(p))
    /\ Contains(After(b, OpenDelim(p)), CloseDelim(p))

\* Keyed-field case: the quoted field name occurs and the text after its
\* first occurrence holds a double-quoted value.
Segment(p, b) == After(b, QuotedField(p))

HasQuotedValue(p, b) ==
    /\ Contains(b, QuotedField(p))
    /\ Contains(Segment(p, b), <<"\"">>)
    /\ Contains(After(Segment(p, b), <<"\"">>), <<"\"">>)

QuotedValue(p, b) == Before(After(Segment(p, b), <<"\"">>), <<"\"">>)

\* The segment up to and including the closing quote of its first value.
ThroughValue(p, b) ==
    LET seg == Segment(p, b)
    IN  SubSeq(seg, 1, Find(seg, <<"\"">>) + Find(After(seg, <<"\"">>), <<"\"">>))

Stripped(v) == SelectSeq(v, LAMBDA c : c # "\\")

ExtractionMiss(p, b) ==
    \/ b = <<>>
    \/ p \in DelimiterProviders /\ ~Delimited(p, b)
    \/ p \in KeyedProviders /\ ~Contains(b, QuotedField(p))

(***************************************************************************)
(* Properties                                                               *)
(***************************************************************************)

\* C1: the ranked list the fallback iterates, as returned by providers(),
\* holds every variant of Provider exactly once.
C1_RankingHoldsEveryProviderOnce ==
    mode = "fallback" =>
        \A p \in Provider : Cardinality({i \in DOMAIN ranking : ranking[i] = p}) = 1

\* C2: for a passthrough provider, parse gives None on an empty body and
\* Some(body), the whole body unchanged, on a non-empty one.
C2_PassthroughNoneOnEmpty ==
    Attempted /\ provider \in PassthroughProviders =>
        shortened = IF response.val = <<>> THEN None ELSE Some(response.val)

\* C3 (as claimed): for a delimiter-bounded provider and a body in which the
\* opening delimiter occurs and the closing delimiter occurs after it, parse
\* gives the text strictly between the first opening delimiter and the first
\* closing delimiter after it, also when the opening delimiter occurs again
\* in between.
C3_BetweenFirstOpenAndClose ==
    Attempted /\ provider \in DelimiterProviders /\ Delimited(provider, response.val) =>
        shortened = Some(Before(After(response.val, OpenDelim(provider)),
                                CloseDelim(provider)))

\* C3 (amended): in that case parse gives the text from the end of the first
\* opening delimiter up to the first following occurrence of either
\* delimiter: the text before the first closing delimiter when the opening
\* delimiter does not occur again before it, and the text between the first
\* two opening delimiters when it does.
C3_BetweenFirstOpenAndNextDelimiter ==
    Attempted /\ provider \in DelimiterProviders /\ Delimited(provider, response.val) =>
        LET rest == After(response.val, OpenDelim(provider))
            j == Find(rest, OpenDelim(provider))
            k == Find(rest, CloseDelim(provider))
        IN  shortened = Some(IF j = 0 \/ k < j
                             THEN SubSeq(rest, 1, k - 1)
                             ELSE SubSeq(rest, 1, j - 1))

\* C3 witness: a tny.im body with the opening delimiter repeated before the
\* closing one has been parsed to the text between the two opening delimiters.
C3_Witness ==
    /\ Attempted
    /\ provider = "TnyIm"
    /\ response.val = OpenDelim("TnyIm") \o <<"a">> \o OpenDelim("TnyIm") \o CloseDelim("TnyIm")
    /\ shortened = Some(<<"a">>)

\* C4: for a delimiter-bounded provider, parse gives None when the body is
\* empty, the opening delimiter does not occur, or the closing delimiter does
\* not occur after the opening delimiter.
C4_NoneWithoutDelimiters ==
    Attempted /\ provider \in DelimiterProviders /\ ~Delimited(provider, response.val) =>
        shortened = None

\* C5 (as claimed): for a keyed-field provider and a body in which the quoted
\* field name occurs and the text after its first occurrence holds a quoted
\* value v free of backslashes, parse gives Some(prefix ++ v), v being the
\* whole first quoted value.
C5_PrefixedWholeValue ==
    /\ Attempted
    /\ provider \in KeyedProviders
    /\ HasQuotedValue(provider, response.val)
    /\ ~Contains(QuotedValue(provider, response.val), <<"\\">>)
    => shortened = Some(Prefix(provider) \o QuotedValue(provider, response.val))

\* C5 (amended): the same, provided no comma occurs in the text after the
\* field name up to the closing quote of v (neither before v nor inside it)
\* and v is not the field name itself.
C5_PrefixedValueWithoutComma ==
    /\ Attempted
    /\ provider \in KeyedProviders
    /\ HasQuotedValue(provider, response.val)
    /\ ~Contains(QuotedValue(provider, response.val), <<"\\">>)
    /\ ~Contains(ThroughValue(provider, response.val), <<",">>)
    /\ QuotedValue(provider, response.val) # FieldName(provider)
    => shortened = Some(Prefix(provider) \o QuotedValue(provider, response.val))

\* C5 witness: fifo.cc answered "shortner""a" and parse gave the prefixed value.
C5_Witness ==
    /\ Attempted
    /\ provider = "FifoCc"
    /\ response.val = QuotedField("FifoCc") \o <<"\"", "a", "\"">>
    /\ shortened = Some(Prefix("FifoCc") \o <<"a">>)

\* C6: for a keyed-field provider, parse gives None when the body is empty or
\* the quoted field name does not occur in it; the prefix alone is not
\* returned.
C6_NoneWithoutField ==
    /\ Attempted
    /\ provider \in KeyedProviders
    /\ ~Contains(response.val, QuotedField(provider))
    => shortened = None

\* C6 witness: fifo.cc answered with a quoted value but no field name, and
\* parse gave None.
C6_Witness ==
    /\ Attempted
    /\ provider = "FifoCc"
    /\ response.val = <<"\"", "a", "\"">>
    /\ shortened = None

C8_ViaNoneOnFailureOrMiss ==
    mode = "via" /\ pc = "done" =>
        /\ response = None => ret = None
        /\ (response # None /\ ExtractionMiss(provider, response.val)) => ret = None

\* C9: every request built is a GET with the long URL in a query parameter,
\* no body and no header set, or a POST with a form body holding the long URL
\* and the form-url-encoded content type header.
C9_GetWithQueryOrPostWithFormHeader ==
    req # None =>
        \/ /\ req.val.method = "Get"
           /\ req.val.body = None
           /\ req.val.headers = {}
           /\ Contains(req.val.target, <<"?">>)
           /\ Contains(After(req.val.target, <<"?">>), <<"=">> \o longUrl)
        \/ /\ req.val.method = "Post"
           /\ req.val.body # None
           /\ Contains(req.val.body.val, <<"=">> \o longUrl)
           /\ ContentType_form_url_encoded \in req.val.headers

\* C10: for a keyed-field provider, a result never holds a backslash: the
\* backslashes of the extracted value are deleted, nothing else is decoded,
\* and the prefix is put in front of what remains.
C10_NoBackslashInResult ==
    Attempted /\ provider \in KeyedProviders =>
        /\ shortened # None => ~Contains(shortened.val, <<"\\">>)
        /\ ( /\ HasQuotedValue(provider, response.val)
             /\ ~Contains(ThroughValue(provider, response.val), <<",">>)
             /\ QuotedValue(provider, response.val) # FieldName(provider) )
           => shortened = Some(Prefix(provider) \o Stripped(QuotedValue(provider, response.val)))

\* C10 witness: bmeo.org answered "short""\a and parse gave a.
C10_Witness ==
    /\ Attempted
    /\ provider = "Bmeo"
    /\ response.val = QuotedField("Bmeo") \o <<"\"", "\\", "a">>
    /\ shortened = Some(<<"a">>)

====
